---- MODULE Spec2Model ----
(***************************************************************************)
(* Model of src/index.js: a Slack message shortcut that opens a modal,     *)
(* two external-select option providers (db_select, parent_select) and the *)
(* view-submission handler that creates a Notion page.                     *)
(*                                                                         *)
(* Every handler is a function of the event payload it receives and of the *)
(* answers the remote services give during that handling; the only state   *)
(* shared between events is the read-only allow-list allowedDbSet.         *)
(* A handler is one action: the outbound calls it makes are recorded, in   *)
(* order, in last.res.calls, its acknowledgments in last.res.acks and an   *)
(* exception that leaves the listener in last.res.threw.                   *)
(*                                                                         *)
(* Two specifications share the handlers:                                  *)
(*   Spec    each event payload is drawn from bounded sets (the contract   *)
(*           of a handler against any payload the platform may deliver);   *)
(*   SpecUI  one user interaction end to end: the payloads are what the    *)
(*           modal opened by the shortcut makes the platform deliver.      *)
(***************************************************************************)
EXTENDS Naturals, Sequences, FiniteSets, TLC

VARIABLES allowedDbSet, view, last

vars == <<allowedDbSet, view, last>>

----------------------------------------------------------------------------
(* Bounds and value sets                                                   *)

MaxResults == 3
MaxProps == 2
MaxRuns == 3
MaxSchemaProps == 3

\* limits written in index.js
TitleMax == 80
LabelMax == 75
PageSize == 25
IdSlice == 12

\* JavaScript undefined / null for ids and other atoms
Undefined == "undefined"
\* JavaScript undefined / null where a text (a sequence of characters) may stand
UndefinedText == << "undefined" >>

DbIds == {"db1", "db2"}
ParentIds == {"pg1"}
NewPageIds == {"pg2"}
AllowLists == {{}, {"db1"}}
Channels == {"C1"}
Timestamps == {"t1"}
TriggerIds == {"trg1", "trg2"}
PermalinkUrl == "https://slack/p1"

\* texts are sequences of characters; " " is whitespace
Texts == {<< >>, << " " >>, << "x" >>, << " ", "x" >>}
InputTexts == {UndefinedText, << " " >>, << "x" >>}
TitleInputs == InputTexts \cup {<< >>, << " ", "x", " " >>}
MessageTexts == {UndefinedText, << "x" >>}
NewTask == << "N", "e", "w", " ", "T", "a", "s", "k" >>
NewTaskFromSlack ==
    << "N", "e", "w", " ", "T", "a", "s", "k", " ", "f", "r", "o", "m", " ",
       "S", "l", "a", "c", "k" >>
Ellipsis == "..."
LinkText == << "V", "i", "e", "w" >>

RECURSIVE SeqsUpTo(_, _)
SeqsUpTo(S, n) ==
    IF n = 0 THEN {<< >>}
    ELSE LET shorter == SeqsUpTo(S, n - 1)
         IN shorter \cup {Append(s, x) : s \in {t \in shorter : Len(t) = n - 1}, x \in S}

----------------------------------------------------------------------------
(* JavaScript helpers                                                      *)

\* a || b on ids (undefined is the only falsy id of the model)
Or(a, b) == IF a # Undefined THEN a ELSE b

\* truthiness of a text: undefined and "" are falsy
TruthyText(t) == t # UndefinedText /\ t # << >>

\* a || b on texts
OrText(a, b) == IF TruthyText(a) THEN a ELSE b

\* the characters \s matches and trim strips
IsSpace(c) == c \in {" ", "\n", "\t"}

\* n copies of character c
Repeat(c, n) == [i \in 1..n |-> c]

\* the text without its leading whitespace
TrimStart(s) ==
    IF \A i \in DOMAIN s : IsSpace(s[i]) THEN << >>
    ELSE SubSeq(s,
                CHOOSE i \in DOMAIN s :
                    ~IsSpace(s[i]) /\ \A j \in 1..(i - 1) : IsSpace(s[j]),
                Len(s))

\* the text without its trailing whitespace
TrimEnd(s) ==
    IF \A i \in DOMAIN s : IsSpace(s[i]) THEN << >>
    ELSE SubSeq(s, 1,
                CHOOSE i \in DOMAIN s :
                    ~IsSpace(s[i]) /\ \A j \in (i + 1)..Len(s) : IsSpace(s[j]))

\* String.prototype.trim
Trim(s) == TrimEnd(TrimStart(s))

\* x?.trim(): undefined stays undefined
OptTrim(t) == IF t = UndefinedText THEN UndefinedText ELSE Trim(t)

\* JSON.stringify of {channel, ts, messageText, selectedDb}: the text lists the
\* keys in insertion order and leaves out a key whose value is undefined; the
\* text is modelled by its sequence of <<key, value>> members
MetaKeys == << "channel", "ts", "messageText", "selectedDb" >>
JSONstringify(o) ==
    LET defined(k) == IF k = "messageText" THEN o[k] # UndefinedText
                      ELSE o[k] # Undefined
        F[i \in 0..Len(MetaKeys)] ==
            IF i = 0 THEN << >>
            ELSE IF defined(MetaKeys[i])
                 THEN Append(F[i - 1], << MetaKeys[i], o[MetaKeys[i]] >>)
                 ELSE F[i - 1]
    IN F[Len(MetaKeys)]

\* JSON.parse(text || "{}"): the object holding the members of the text (the
\* empty text and "{}" both give the empty object)
JSONparse(text) ==
    [k \in {text[i][1] : i \in DOMAIN text} |->
        text[CHOOSE i \in DOMAIN text : text[i][1] = k][2]]

\* o.k for an id-valued key: undefined when the key is absent
Get(o, k) == IF k \in DOMAIN o THEN o[k] ELSE Undefined

\* the result of one handling
Result(calls, acks, threw) == [calls |-> calls, acks |-> acks, threw |-> threw]

----------------------------------------------------------------------------
(* Helpers of index.js                                                     *)

\* a faulty truncate that keeps n characters before the marker
truncateKeepN(s, n) ==
    IF Len(s) > n THEN Append(SubSeq(s, 1, n), Ellipsis) ELSE s

\* s.length > n ? s.slice(0, n - 1) + "…" : s  (the marker is one character)
truncate(s, n) ==
    IF Len(s) > n THEN Append(SubSeq(s, 1, n - 1), Ellipsis) ELSE s

\* s.replace(/\s+/g, " "): every maximal run of whitespace becomes one space
\* (computed by halves: a run that spans the middle is kept once)
RECURSIVE CollapseSpaces(_)
CollapseSpaces(s) ==
    IF s = << >> THEN << >>
    ELSE IF Len(s) = 1 THEN (IF IsSpace(s[1]) THEN << " " >> ELSE s)
    ELSE LET m == Len(s) \div 2
             left == CollapseSpaces(SubSeq(s, 1, m))
             right == CollapseSpaces(SubSeq(s, m + 1, Len(s)))
         IN IF IsSpace(s[m]) /\ IsSpace(s[m + 1])
            THEN left \o Tail(right)
            ELSE left \o right

\* a faulty oneLine that forgets to trim
oneLineNoTrim(s) == CollapseSpaces(s)

oneLine(s) == Trim(CollapseSpaces(s))

\* database schemas: properties in declaration order (Object.entries order)
PropNames == << "A", "B", "C", "D" >>
PropKinds ==
    {[type |-> "title", database_id |-> Undefined]} \cup
    {[type |-> "relation", database_id |-> d] : d \in DbIds}
SchemasOver(kinds, n) ==
    {[i \in 1..Len(ks) |-> [name |-> PropNames[i], type |-> ks[i].type,
                            relation |-> [database_id |-> ks[i].database_id]]]
        : ks \in SeqsUpTo(kinds, n)}
Schemas == SchemasOver(PropKinds, MaxProps)

\* entries.find(pred): index of the first entry satisfying pred, 0 when none
FirstIndex(entries, Pred(_)) ==
    IF \E i \in 1..Len(entries) : Pred(entries[i])
    THEN CHOOSE i \in 1..Len(entries) :
            /\ Pred(entries[i])
            /\ \A j \in 1..(i - 1) : ~Pred(entries[j])
    ELSE 0

IsTitle(v) == v.type = "title"

\* a faulty resolver that takes the first property, whatever its type
getTitlePropNameFirst(database_id, env) ==
    LET call == [op |-> "databases.retrieve", database_id |-> database_id]
        entries == env.properties
    IN IF ~env.retrieveOk \/ Len(entries) = 0
       THEN [calls |-> << call >>, threw |-> TRUE, name |-> Undefined]
       ELSE [calls |-> << call >>, threw |-> FALSE, name |-> entries[1].name]

\* a faulty resolver that goes on without a title property
getTitlePropNameNoThrow(database_id, env) ==
    LET call == [op |-> "databases.retrieve", database_id |-> database_id]
        entries == env.properties
        titleEntry == FirstIndex(entries, IsTitle)
    IN IF ~env.retrieveOk
       THEN [calls |-> << call >>, threw |-> TRUE, name |-> Undefined]
       ELSE [calls |-> << call >>, threw |-> FALSE,
             name |-> IF titleEntry = 0 THEN Undefined ELSE entries[titleEntry].name]

\* notion.databases.retrieve, then the first property of type title; throws
\* when the retrieval fails or no property has that type
getTitlePropName(database_id, env) ==
    LET call == [op |-> "databases.retrieve", database_id |-> database_id]
        entries == env.properties
        titleEntry == FirstIndex(entries, IsTitle)
    IN IF ~env.retrieveOk
       THEN [calls |-> << call >>, threw |-> TRUE, name |-> Undefined]
       ELSE IF titleEntry = 0
            THEN [calls |-> << call >>, threw |-> TRUE, name |-> Undefined]
            ELSE [calls |-> << call >>, threw |-> FALSE, name |-> entries[titleEntry].name]

\* a faulty allow-list check that lets every id through
dbAllowedOpen(id) == TRUE

dbAllowed(id) ==
    IF Cardinality(allowedDbSet) = 0 THEN TRUE ELSE id \in allowedDbSet

\* a faulty builder that puts the default title, not the raw text, in the context
buildModalTitleInContext(messageText, channel, ts, selectedDb) ==
    [callback_id |-> "push_to_notion_modal",
     private_metadata |->
        JSONstringify([channel |-> channel, ts |-> ts,
                       messageText |->
                          truncate(oneLine(OrText(messageText, NewTaskFromSlack)),
                                   TitleMax),
                       selectedDb |-> selectedDb]),
     db_initial_option |-> selectedDb,
     title_initial_value |-> truncate(oneLine(OrText(messageText, NewTaskFromSlack)),
                                      TitleMax),
     notes_initial_value |-> OrText(messageText, << >>)]

buildModal(messageText, channel, ts, selectedDb) ==
    [callback_id |-> "push_to_notion_modal",
     private_metadata |-> JSONstringify([channel |-> channel, ts |-> ts,
                                         messageText |-> messageText,
                                         selectedDb |-> selectedDb]),
     db_initial_option |-> selectedDb,
     title_initial_value |-> truncate(oneLine(OrText(messageText, NewTaskFromSlack)),
                                      TitleMax),
     notes_initial_value |-> OrText(messageText, << >>)]

----------------------------------------------------------------------------
(* app.shortcut("push_to_notion")                                          *)

\* a faulty handler that acknowledges only once the form is open
shortcut_push_to_notionAckLast(shortcut, env) ==
    LET channel == shortcut.channel
        ts == Or(shortcut.message.ts, shortcut.message_ts)
        text == OrText(shortcut.message.text, << >>)
        modal == buildModal(text, channel, ts, Undefined)
        open == [op |-> "views.open", trigger_id |-> shortcut.trigger_id, view |-> modal]
    IN [calls |-> << open >>,
        acks |-> IF env.openOk THEN << [kind |-> "ack", after |-> 1] >> ELSE << >>,
        threw |-> ~env.openOk]

\* shortcut: [channel, message: [ts, text], message_ts, trigger_id]
\* env: [openOk]
\* await ack() comes first (after |-> 0: no call was made before it), then the
\* one views.open, whose failure leaves the handler
shortcut_push_to_notion(shortcut, env) ==
    LET channel == shortcut.channel
        ts == Or(shortcut.message.ts, shortcut.message_ts)
        text == OrText(shortcut.message.text, << >>)
        modal == buildModal(text, channel, ts, Undefined)
        open == [op |-> "views.open", trigger_id |-> shortcut.trigger_id, view |-> modal]
    IN [calls |-> << open >>, acks |-> << [kind |-> "ack", after |-> 0] >>,
        threw |-> ~env.openOk]

----------------------------------------------------------------------------
(* app.options("db_select") and app.action("db_select")                    *)

\* the characters of an id (a UUID of 36 characters)
IdChars ==
    [db1 |-> << "d", "b", "1" >>, db2 |-> << "d", "b", "2" >>,
     pg1 |-> << "p", "g", "1" >>, pg2 |-> << "p", "g", "2" >>]
IdText(id) == Repeat("0", 33) \o IdChars[id]

\* the titles the store may hold: none, or one just above a label's limit
LabelTitles == {UndefinedText, Repeat("x", LabelMax + 1)}

\* results of notion.search: objects in the order the store returns them
\* (title is d.title?.[0]?.plain_text)
SearchObjects == [id : DbIds, object : {"database", "page"}, title : LabelTitles]
SearchResults == SeqsUpTo(SearchObjects, MaxResults)

\* the page of results the store answers with: at most page_size of its
\* matches; when it holds more matches than listed (more), the listing goes
\* on with entries like the last one
StorePage(listed, more, page_size) ==
    IF more /\ listed # << >> /\ Len(listed) < page_size
    THEN listed \o [i \in 1..(page_size - Len(listed)) |-> listed[Len(listed)]]
    ELSE SubSeq(listed, 1, IF Len(listed) < page_size THEN Len(listed) ELSE page_size)

\* Array.prototype.filter keeps the order of the elements it keeps
Filter(seq, Keep(_)) == SelectSeq(seq, Keep)

\* a faulty filter that keeps results of every kind
db_select_filterAnyKind(results) ==
    LET allowed(d) == dbAllowed(d.id)
    IN Filter(results, allowed)

\* res.results.filter(database kind).filter(dbAllowed)
db_select_filter(results) ==
    LET isDb(d) == d.object = "database"
        allowed(d) == dbAllowed(d.id)
    IN Filter(Filter(results, isDb), allowed)

\* options: [value]; env: [searchOk, results]
options_db_select(options, env) ==
    LET q == Trim(OrText(options.value, << >>))
        search == [op |-> "search", query |-> OrText(q, UndefinedText),
                   filter |-> "database", page_size |-> PageSize]
        res == [results |-> StorePage(env.results, env.more, search.page_size)]
        dbs == db_select_filter(res.results)
        opts == [i \in 1..Len(dbs) |->
                    [text |-> truncate(OrText(dbs[i].title, IdText(dbs[i].id)), LabelMax),
                     value |-> dbs[i].id]]
    IN IF ~env.searchOk
       THEN Result(<< search >>, << >>, TRUE)
       ELSE Result(<< search >>, << [options |-> opts] >>, FALSE)

action_db_select == Result(<< >>, << [kind |-> "ack"] >>, FALSE)

----------------------------------------------------------------------------
(* app.options("parent_select")                                            *)

\* results of notion.databases.query (title is the plain text of the page's
\* title property, p.properties?.[titleProp]?.title?.[0]?.plain_text)
QueryResults ==
    SeqsUpTo([id : ParentIds \cup NewPageIds, title : LabelTitles], MaxResults)

\* a faulty lookup that falls back to a fixed database
parent_select_database_idDefault(meta) == Or(Get(meta, "selectedDb"), "db1")

\* const database_id = meta.selectedDb
parent_select_database_id(meta) == Get(meta, "selectedDb")

\* body: [private_metadata]; options: [value]
\* env: [retrieveOk, properties, queryOk, results]
options_parent_select(options, body, env) ==
    LET meta == JSONparse(body.private_metadata)
        database_id == parent_select_database_id(meta)
    IN IF database_id = Undefined
       THEN Result(<< >>, << [options |-> << >>] >>, FALSE)
       ELSE
       LET queryStr == Trim(OrText(options.value, << >>))
           r == getTitlePropName(database_id, env)
           titleProp == r.name
           query == [op |-> "databases.query", database_id |-> database_id,
                     page_size |-> PageSize,
                     filter |-> IF queryStr # << >>
                                THEN [property |-> titleProp, contains |-> queryStr]
                                ELSE [property |-> Undefined, contains |-> UndefinedText]]
           res == [results |-> StorePage(env.results, env.more, query.page_size)]
           opts == [i \in 1..Len(res.results) |->
                       LET p == res.results[i]
                           title == OrText(p.title,
                                           SubSeq(IdText(p.id), 1, IdSlice))
                       IN [text |-> truncate(title, LabelMax), value |-> p.id]]
       IN IF r.threw THEN Result(r.calls, << >>, TRUE)
          ELSE IF ~env.queryOk THEN Result(Append(r.calls, query), << >>, TRUE)
          ELSE Result(Append(r.calls, query), << [options |-> opts] >>, FALSE)

----------------------------------------------------------------------------
(* app.view("push_to_notion_modal")                                        *)

\* a faulty validation that falls back to a fixed database
view_selectedDbDefault(state, meta) ==
    Or(Or(state.db_select, Get(meta, "selectedDb")), "db1")

\* state.db_block?.db_select?.selected_option?.value || meta.selectedDb
view_selectedDb(state, meta) == Or(state.db_select, Get(meta, "selectedDb"))

\* a faulty default that forgets to trim the input
view_titleInputNoTrim(state) == OrText(state.title_input, NewTask)

\* state.title_block?.title_input?.value?.trim() || "New Task"
view_titleInput(state) == OrText(OptTrim(state.title_input), NewTask)

\* state.notes_block?.notes_input?.value?.trim() || ""
view_notesInput(state) == OrText(OptTrim(state.notes_input), << >>)

\* a faulty detection that accepts a relation to any database
relationPropNameAnyTarget(properties, selectedDb) ==
    LET isRel(prop) == prop.type = "relation"
        relationPropEntry == FirstIndex(properties, isRel)
    IN IF relationPropEntry # 0 THEN properties[relationPropEntry].name ELSE Undefined

\* relationPropEntry / relationPropName (null is modelled by Undefined)
relationPropName(properties, selectedDb) ==
    LET isSelfRel(prop) ==
            IF prop.type # "relation" THEN FALSE
            ELSE prop.relation.database_id = selectedDb
        relationPropEntry == FirstIndex(properties, isSelfRel)
    IN IF relationPropEntry # 0 THEN properties[relationPropEntry].name ELSE Undefined

\* the properties of the page to create: the title under titleProp and, when
\* a parent is selected and a relation property was found, the relation
createProperties(titleProp, titleInput, parentSelected, relPropName) ==
    [title_prop |-> titleProp, title |-> titleInput,
     relation_prop |-> IF parentSelected # Undefined /\ relPropName # Undefined
                       THEN relPropName ELSE Undefined,
     relation |-> IF parentSelected # Undefined /\ relPropName # Undefined
                  THEN parentSelected ELSE Undefined]

\* a faulty creation that tries once more when the first call fails
createPageRetry(selectedDb, properties, env) ==
    LET call == [op |-> "pages.create", database_id |-> selectedDb,
                 properties |-> properties]
    IN [calls |-> IF env.createOk THEN << call >> ELSE << call, call >>,
        threw |-> ~env.createOk,
        page |-> [id |-> IF env.createOk THEN env.pageId ELSE Undefined]]

\* a faulty creation whose failure is swallowed
createPageSwallow(selectedDb, properties, env) ==
    LET call == [op |-> "pages.create", database_id |-> selectedDb,
                 properties |-> properties]
    IN [calls |-> << call >>, threw |-> FALSE,
        page |-> [id |-> IF env.createOk THEN env.pageId ELSE Undefined]]

\* await notion.pages.create(...): one call, its failure leaves the handler
createPage(selectedDb, properties, env) ==
    LET call == [op |-> "pages.create", database_id |-> selectedDb,
                 properties |-> properties]
    IN [calls |-> << call >>, threw |-> ~env.createOk,
        page |-> [id |-> IF env.createOk THEN env.pageId ELSE Undefined]]

\* the permalink lookup, inside try/catch: "" when skipped, failed or empty
resolvePermalink(meta, env) ==
    LET channel == Get(meta, "channel")
        ts == Get(meta, "ts")
        call == [op |-> "chat.getPermalink", channel |-> channel, message_ts |-> ts]
    IN IF channel # Undefined /\ ts # Undefined
       THEN [calls |-> << call >>,
             permalink |-> IF env.permalinkOk THEN Or(env.permalink, "") ELSE ""]
       ELSE [calls |-> << >>, permalink |-> ""]

\* the blocks to append: the notes paragraph, then the link paragraph
buildChildren(notesInput, permalink) ==
    (IF notesInput # << >>
     THEN << [type |-> "paragraph", content |-> notesInput, link |-> Undefined] >>
     ELSE << >>)
    \o
    (IF permalink # ""
     THEN << [type |-> "paragraph", content |-> LinkText, link |-> permalink] >>
     ELSE << >>)

\* a faulty append that is called even without a block
appendChildrenAlways(page, children, env) ==
    LET call == [op |-> "blocks.children.append", block_id |-> page.id,
                 children |-> children]
    IN [calls |-> << call >>, threw |-> ~env.appendOk]

\* await notion.blocks.children.append(...), outside any try/catch: skipped
\* when there is no block, and its failure leaves the handler
appendChildren(page, children, env) ==
    LET call == [op |-> "blocks.children.append", block_id |-> page.id,
                 children |-> children]
    IN IF Len(children) # 0
       THEN [calls |-> << call >>, threw |-> ~env.appendOk]
       ELSE [calls |-> << >>, threw |-> FALSE]

\* view: [private_metadata, state: [db_select, parent_select, title_input, notes_input]]
\* env: [retrieveOk, properties, createOk, pageId, permalinkOk, permalink, appendOk]
view_push_to_notion_modal(v, env) ==
    LET meta == JSONparse(v.private_metadata)
        state == v.state
        selectedDb == view_selectedDb(state, meta)
    IN IF selectedDb = Undefined
       THEN Result(<< >>,
                   << [response_action |-> "errors", errors |-> {"db_block"},
                       after |-> 0] >>,
                   FALSE)
       ELSE
       LET titleInput == view_titleInput(state)
           notesInput == view_notesInput(state)
           parentSelected == state.parent_select
           r == getTitlePropName(selectedDb, env)
           titleProp == r.name
           relPropName == relationPropName(env.properties, selectedDb)
           c == createPage(selectedDb,
                           createProperties(titleProp, titleInput, parentSelected,
                                            relPropName),
                           env)
           l == resolvePermalink(meta, env)
           children == buildChildren(notesInput, l.permalink)
           a == appendChildren(c.page, children, env)
           calls == r.calls \o c.calls \o l.calls \o a.calls
       IN IF r.threw THEN Result(r.calls, << >>, TRUE)
          ELSE IF c.threw THEN Result(r.calls \o c.calls, << >>, TRUE)
          ELSE IF a.threw THEN Result(calls, << >>, TRUE)
          ELSE Result(calls,
                      << [response_action |-> "close", errors |-> {},
                          after |-> Len(calls)] >>,
                      FALSE)

----------------------------------------------------------------------------
(* Event payloads and the answers of the remote services                   *)

Shortcuts ==
    [channel : {Undefined} \cup Channels,
     message : [ts : {Undefined} \cup Timestamps, text : MessageTexts],
     message_ts : {Undefined} \cup Timestamps,
     trigger_id : TriggerIds]

ShortcutEnvs == [openOk : BOOLEAN]

OptionQueries == [value : InputTexts]

\* the answers to notion.search: after a failure nothing else is consulted
DbSelectEnvs ==
    {e \in [searchOk : BOOLEAN, results : SearchResults, more : BOOLEAN] :
        /\ ~e.searchOk => e.results = << >>
        /\ e.results = << >> => ~e.more}

\* the answers drawn in an interaction: short pages of untitled databases
DbSelectEnvsUI ==
    {e \in DbSelectEnvs :
        ~e.more /\ \A i \in DOMAIN e.results : e.results[i].title = UndefinedText}

\* the private_metadata a payload may carry: any text buildModal can write
Metadata ==
    {buildModal(<< >>, c, t, d).private_metadata :
        c \in {Undefined} \cup Channels, t \in {Undefined} \cup Timestamps,
        d \in {Undefined} \cup DbIds}

ParentSelectEnvs ==
    {e \in [retrieveOk : BOOLEAN, properties : Schemas, queryOk : BOOLEAN,
            results : QueryResults, more : BOOLEAN] :
        /\ ~e.retrieveOk => e.properties = << >>
        /\ getTitlePropName(Undefined, e).threw => e.queryOk
        /\ (getTitlePropName(Undefined, e).threw \/ ~e.queryOk) => e.results = << >>
        /\ e.results = << >> => ~e.more}

\* the metadata drawn for a parent query: with or without a selected database
ParentMetadata ==
    {buildModal(<< >>, c, t, d).private_metadata :
        c \in Channels, t \in Timestamps, d \in {Undefined} \cup DbIds}

ParentSelectEnvsUI ==
    {e \in ParentSelectEnvs :
        ~e.more /\ \A i \in DOMAIN e.results : e.results[i].title = UndefinedText}

FormStates ==
    [db_select : {Undefined} \cup DbIds,
     parent_select : {Undefined} \cup ParentIds,
     title_input : TitleInputs,
     notes_input : InputTexts]

\* the answers during one submission: after the first failure that leaves the
\* handler nothing else is consulted, so the later answers are fixed
ViewEnvs ==
    {e \in [retrieveOk : BOOLEAN, properties : Schemas, createOk : BOOLEAN,
            pageId : NewPageIds, permalinkOk : BOOLEAN,
            permalink : {Undefined, PermalinkUrl}, appendOk : BOOLEAN] :
        /\ ~e.retrieveOk => e.properties = << >>
        /\ getTitlePropName(Undefined, e).threw => e.createOk
        /\ (getTitlePropName(Undefined, e).threw \/ ~e.createOk) =>
                e.permalinkOk /\ e.permalink = PermalinkUrl /\ e.appendOk
        /\ ~e.permalinkOk => e.permalink = Undefined}

NoEvent == [handler |-> "none"]
Handled(h, payload, env, res) ==
    [handler |-> h, payload |-> payload, env |-> env, res |-> res]

ClosedView ==
    [open |-> FALSE, private_metadata |-> << >>, db_options |-> {},
     db_select |-> Undefined, parent_options |-> {}]

Init ==
    /\ allowedDbSet \in AllowLists
    /\ view = ClosedView
    /\ last = NoEvent

\* the listener has finished; the process waits for the next event
Return ==
    /\ last.handler # "none"
    /\ last' = NoEvent
    /\ UNCHANGED <<allowedDbSet, view>>

----------------------------------------------------------------------------
(* Spec: every handler against every payload                               *)

ShortcutEvent ==
    /\ last.handler = "none"
    /\ \E shortcut \in Shortcuts, env \in ShortcutEnvs :
          last' = Handled("shortcut", shortcut, env,
                          shortcut_push_to_notion(shortcut, env))
    /\ UNCHANGED <<allowedDbSet, view>>

DbOptionsEvent ==
    /\ last.handler = "none"
    /\ \E options \in OptionQueries, env \in DbSelectEnvs :
          last' = Handled("options_db_select", options, env,
                          options_db_select(options, env))
    /\ UNCHANGED <<allowedDbSet, view>>

DbActionEvent ==
    /\ last.handler = "none"
    /\ \E d \in DbIds :
          last' = Handled("action_db_select", [selected |-> d], [none |-> TRUE],
                          action_db_select)
    /\ UNCHANGED <<allowedDbSet, view>>

ParentOptionsEvent ==
    /\ last.handler = "none"
    /\ \E options \in OptionQueries, md \in ParentMetadata, env \in ParentSelectEnvs :
          LET body == [private_metadata |-> md, db_select |-> Undefined]
          IN last' = Handled("options_parent_select",
                             [options |-> options, body |-> body], env,
                             options_parent_select(options, body, env))
    /\ UNCHANGED <<allowedDbSet, view>>

ViewSubmissionEvent ==
    /\ last.handler = "none"
    /\ \E md \in Metadata, state \in FormStates, env \in ViewEnvs :
          LET v == [private_metadata |-> md, state |-> state]
          IN last' = Handled("view", v, env, view_push_to_notion_modal(v, env))
    /\ UNCHANGED <<allowedDbSet, view>>

Next ==
    \/ ShortcutEvent
    \/ DbOptionsEvent
    \/ DbActionEvent
    \/ ParentOptionsEvent
    \/ ViewSubmissionEvent
    \/ Return

Spec == Init /\ [][Next]_vars

----------------------------------------------------------------------------
(* SpecUI: one interaction, end to end. The platform keeps the modal       *)
(* (view): its private_metadata as written by buildModal, the options last *)
(* shown in each selector and the database the user has chosen. A selector *)
(* offers only what its option provider returned.                          *)

OptionValues(res) ==
    IF res.acks = << >> THEN {}
    ELSE {res.acks[1].options[i].value : i \in DOMAIN res.acks[1].options}

UserShortcut ==
    /\ last.handler = "none"
    /\ ~view.open
    /\ \E shortcut \in Shortcuts, env \in ShortcutEnvs :
          LET res == shortcut_push_to_notion(shortcut, env)
          IN /\ last' = Handled("shortcut", shortcut, env, res)
             /\ view' = IF env.openOk
                        THEN [open |-> TRUE,
                              private_metadata |-> res.calls[1].view.private_metadata,
                              db_options |-> {},
                              db_select |-> res.calls[1].view.db_initial_option,
                              parent_options |-> {}]
                        ELSE view
    /\ UNCHANGED allowedDbSet

UserDbQuery ==
    /\ last.handler = "none"
    /\ view.open
    /\ \E options \in OptionQueries, env \in DbSelectEnvsUI :
          LET res == options_db_select(options, env)
          IN /\ last' = Handled("options_db_select", options, env, res)
             /\ view' = [view EXCEPT !.db_options = OptionValues(res)]
    /\ UNCHANGED allowedDbSet

UserDbSelect ==
    /\ last.handler = "none"
    /\ view.open
    /\ \E d \in view.db_options :
          /\ last' = Handled("action_db_select", [selected |-> d], [none |-> TRUE],
                             action_db_select)
          /\ view' = [view EXCEPT !.db_select = d]
    /\ UNCHANGED allowedDbSet

UserParentQuery ==
    /\ last.handler = "none"
    /\ view.open
    /\ \E options \in OptionQueries, env \in ParentSelectEnvsUI :
          LET body == [private_metadata |-> view.private_metadata,
                       db_select |-> view.db_select]
              res == options_parent_select(options, body, env)
          IN /\ last' = Handled("options_parent_select",
                                [options |-> options, body |-> body], env, res)
             /\ view' = [view EXCEPT !.parent_options = OptionValues(res)]
    /\ UNCHANGED allowedDbSet

UserSubmit ==
    /\ last.handler = "none"
    /\ view.open
    /\ \E parent \in {Undefined} \cup view.parent_options,
          title \in TitleInputs, notes \in InputTexts, env \in ViewEnvs :
          LET v == [private_metadata |-> view.private_metadata,
                    state |-> [db_select |-> view.db_select,
                               parent_select |-> parent,
                               title_input |-> title, notes_input |-> notes]]
              res == view_push_to_notion_modal(v, env)
          IN /\ last' = Handled("view", v, env, res)
             /\ view' = IF res.acks # << >> /\ res.acks[1].response_action = "close"
                        THEN ClosedView ELSE view
    /\ UNCHANGED allowedDbSet

NextUI ==
    \/ UserShortcut
    \/ UserDbQuery
    \/ UserDbSelect
    \/ UserParentQuery
    \/ UserSubmit
    \/ Return

SpecUI == Init /\ [][NextUI]_vars

----------------------------------------------------------------------------
(* SpecTitle: the shortcut on messages of every shape. A message text is   *)
(* given by its runs of equal characters, so that texts around the title   *)
(* limit are drawn without enumerating every text of that length.          *)

RunLens == {1, 2, TitleMax - 1, TitleMax}
Runs == [ch : {" ", "\n", "x"}, n : RunLens]
RunSeqs == SeqsUpTo(Runs, MaxRuns)

RECURSIVE Expand(_)
Expand(runs) ==
    IF runs = << >> THEN << >>
    ELSE Repeat(Head(runs).ch, Head(runs).n) \o Expand(Tail(runs))

TitleShortcut ==
    /\ last.handler = "none"
    /\ \E runs \in RunSeqs, c \in Channels, t \in Timestamps, g \in TriggerIds :
          LET shortcut == [channel |-> c,
                           message |-> [ts |-> t, text |-> Expand(runs)],
                           message_ts |-> t, trigger_id |-> g]
              env == [openOk |-> TRUE]
          IN last' = [handler |-> "shortcut", payload |-> shortcut, env |-> env,
                      res |-> shortcut_push_to_notion(shortcut, env),
                      runs |-> runs]
    /\ UNCHANGED <<allowedDbSet, view>>

NextTitle ==
    \/ TitleShortcut
    \/ Return

SpecTitle == Init /\ [][NextTitle]_vars

----------------------------------------------------------------------------
(* SpecSchema: schema resolution on schemas of every shape: the title      *)
(* lookup of getTitlePropName and the relation detection of the submission *)
(* handler, applied to database D and the properties the store returns.    *)

SchemaKinds == PropKinds \cup {[type |-> "rich_text", database_id |-> Undefined]}

SchemaEnvs ==
    {e \in [retrieveOk : BOOLEAN,
            properties : SchemasOver(SchemaKinds, MaxSchemaProps)] :
        ~e.retrieveOk => e.properties = << >>}

ResolveSchema ==
    /\ last.handler = "none"
    /\ \E D \in DbIds, env \in SchemaEnvs :
          last' = Handled("schema", [database_id |-> D], env,
                          [title |-> getTitlePropName(D, env),
                           relationPropName |-> relationPropName(env.properties, D)])
    /\ UNCHANGED <<allowedDbSet, view>>

NextSchema ==
    \/ ResolveSchema
    \/ Return

SpecSchema == Init /\ [][NextSchema]_vars

----------------------------------------------------------------------------
(* Vocabulary of the properties                                            *)

\* the calls of the handling on record that invoke operation op
CallsOf(op) == {i \in DOMAIN last.res.calls : last.res.calls[i].op = op}

\* the serialized context names a selected database
ContextHasDb(text) == \E i \in DOMAIN text : text[i][1] = "selectedDb"

\* the allow-list policy of the configuration
Permitted(id) == allowedDbSet = {} \/ id \in allowedDbSet

\* the handling on record acknowledged the submission as a success
AckedSuccess ==
    /\ ~last.res.threw
    /\ Len(last.res.acks) = 1
    /\ last.res.acks[1].response_action = "close"

\* the schema holds a relation property that targets database d
HasSelfRelation(properties, d) ==
    \E i \in DOMAIN properties :
        /\ properties[i].type = "relation"
        /\ properties[i].relation.database_id = d

HasTitle(properties) == \E i \in DOMAIN properties : properties[i].type = "title"

\* the database a submission on record was made for
SubmittedDb ==
    IF last.payload.state.db_select # Undefined THEN last.payload.state.db_select
    ELSE IF ContextHasDb(last.payload.private_metadata)
         THEN CHOOSE d \in DbIds :
                \E i \in DOMAIN last.payload.private_metadata :
                    last.payload.private_metadata[i] = << "selectedDb", d >>
         ELSE Undefined

----------------------------------------------------------------------------
(* C1: a submission with no database selected in the form and none in the  *)
(* context is answered with an error on the database field, and no call to *)
(* the store or the chat platform is made in that handling.                *)
C1_NoDatabaseIsFieldError ==
    (/\ last.handler = "view"
     /\ last.payload.state.db_select = Undefined
     /\ ~ContextHasDb(last.payload.private_metadata))
    => /\ last.res.calls = << >>
       /\ ~last.res.threw
       /\ Len(last.res.acks) = 1
       /\ last.res.acks[1].response_action = "errors"
       /\ last.res.acks[1].errors = {"db_block"}

C1_Witness ==
    /\ last.handler = "view"
    /\ last.payload.state.db_select = Undefined
    /\ ~ContextHasDb(last.payload.private_metadata)
    /\ last.payload.state.title_input = << "x" >>
    /\ last.res.acks # << >>

(* C2: when the block append fails after the page was created, the failure *)
(* is swallowed and the submission is still acknowledged as a success.     *)
C2_AppendFailureSwallowed ==
    (/\ last.handler = "view"
     /\ CallsOf("blocks.children.append") # {}
     /\ ~last.env.appendOk)
    => AckedSuccess

(* C3: when the permalink lookup fails, the page is still created, the     *)
(* submission is acknowledged as a success, a notes block is appended      *)
(* exactly when the notes are non-empty and no link block is appended.     *)
C3_PermalinkFailureIsBestEffort ==
    (/\ last.handler = "view"
     /\ CallsOf("chat.getPermalink") # {}
     /\ ~last.env.permalinkOk)
    => /\ Cardinality(CallsOf("pages.create")) = 1
       /\ AckedSuccess
       /\ (TruthyText(OptTrim(last.payload.state.notes_input))
             <=> \E i \in CallsOf("blocks.children.append") :
                    \E j \in DOMAIN last.res.calls[i].children :
                        last.res.calls[i].children[j].link = Undefined)
       /\ \A i \in CallsOf("blocks.children.append") :
             \A j \in DOMAIN last.res.calls[i].children :
                last.res.calls[i].children[j].link = Undefined

(* C4: in the handling of one submission pages.create is invoked at most   *)
(* once, whatever call fails.                                              *)
C4_CreateAtMostOnce ==
    last.handler = "view" => Cardinality(CallsOf("pages.create")) <= 1

C4_Witness ==
    /\ last.handler = "view"
    /\ ~last.env.createOk
    /\ Cardinality(CallsOf("pages.create")) = 1

(* C5: when pages.create fails the submission is not acknowledged, the     *)
(* failure leaves the handler, and neither the permalink lookup nor the    *)
(* block append is performed.                                              *)
C5_CreateFailureIsFatal ==
    (/\ last.handler = "view"
     /\ CallsOf("pages.create") # {}
     /\ ~last.env.createOk)
    => /\ last.res.threw
       /\ last.res.acks = << >>
       /\ CallsOf("chat.getPermalink") = {}
       /\ CallsOf("blocks.children.append") = {}
       /\ last.res.calls[Len(last.res.calls)].op = "pages.create"

C5_Witness ==
    /\ last.handler = "view"
    /\ CallsOf("pages.create") # {}
    /\ ~last.env.createOk
    /\ last.payload.state.notes_input = << "x" >>
    /\ ContextHasDb(last.payload.private_metadata)

(* C6: in an interaction where the database can only be chosen among the   *)
(* options db_select returned, every database id passed to pages.create    *)
(* satisfies the allow-list policy.                                        *)
C6_CreatedInPermittedDb ==
    last.handler = "view" =>
        \A i \in CallsOf("pages.create") : Permitted(last.res.calls[i].database_id)

C6_Witness ==
    /\ last.handler = "view"
    /\ allowedDbSet # {}
    /\ CallsOf("pages.create") # {}

(* C7: the options db_select returns are exactly the store results of the  *)
(* database kind that the allow-list permits, in the order of the store,   *)
(* each with the database id as its value.                                 *)
C7_DbOptionsAreFilteredResults ==
    (last.handler = "options_db_select" /\ last.env.searchOk) =>
        LET results == StorePage(last.env.results, last.env.more,
                                 last.res.calls[1].page_size)
            kept == {j \in DOMAIN results :
                        results[j].object = "database" /\ Permitted(results[j].id)}
            nth(i) == CHOOSE j \in kept : Cardinality({k \in kept : k < j}) = i - 1
        IN /\ Len(last.res.acks) = 1
           /\ Len(last.res.acks[1].options) = Cardinality(kept)
           /\ \A i \in DOMAIN last.res.acks[1].options :
                last.res.acks[1].options[i].value = results[nth(i)].id

C7_Witness ==
    /\ last.handler = "options_db_select"
    /\ last.env.searchOk
    /\ Len(last.env.results) = 3
    /\ ~last.env.more
    /\ Len(last.res.acks[1].options) = 2
    /\ last.res.acks[1].options[1].value # last.res.acks[1].options[2].value

(* C8: when the context carries no selected database, parent_select        *)
(* acknowledges with an empty option list and calls the store not at all.  *)
C8_ParentOptionsEmptyWithoutDb ==
    (/\ last.handler = "options_parent_select"
     /\ ~ContextHasDb(last.payload.body.private_metadata))
    => /\ last.res.calls = << >>
       /\ ~last.res.threw
       /\ last.res.acks = << [options |-> << >>] >>

C8_Witness ==
    /\ last.handler = "options_parent_select"
    /\ ~ContextHasDb(last.payload.body.private_metadata)
    /\ last.payload.options.value = << "x" >>
    /\ last.res.acks # << >>

(* C9: once the user has chosen database D in the database selector, a     *)
(* parent-record option query resolves the schema of D and, when the store *)
(* answers, returns the records of D.                                      *)
C9_ParentOptionsFollowChosenDb ==
    (/\ last.handler = "options_parent_select"
     /\ last.payload.body.db_select # Undefined)
    => /\ last.res.calls # << >>
       /\ last.res.calls[1] = [op |-> "databases.retrieve",
                               database_id |-> last.payload.body.db_select]
       /\ (last.env.retrieveOk /\ HasTitle(last.env.properties) /\ last.env.queryOk)
            => /\ Len(last.res.calls) = 2
               /\ last.res.calls[2].op = "databases.query"
               /\ last.res.calls[2].database_id = last.payload.body.db_select
               /\ Len(last.res.acks) = 1
               /\ Len(last.res.acks[1].options)
                    = Len(StorePage(last.env.results, last.env.more,
                                    last.res.calls[2].page_size))

(* C10: for a submission whose schema resolves, the created page carries   *)
(* the relation to the parent exactly when a parent is selected and a      *)
(* self-relation property exists; with a parent selected and no such       *)
(* property the page is created without the relation and the submission is *)
(* acknowledged without any error.                                         *)
C10_RelationIffParentAndSelfRelation ==
    (/\ last.handler = "view"
     /\ SubmittedDb # Undefined
     /\ last.env.retrieveOk
     /\ HasTitle(last.env.properties)
     /\ last.env.createOk)
    => /\ Cardinality(CallsOf("pages.create")) = 1
       /\ \A i \in CallsOf("pages.create") :
            /\ (last.res.calls[i].properties.relation # Undefined)
                 <=> (/\ last.payload.state.parent_select # Undefined
                      /\ HasSelfRelation(last.env.properties, SubmittedDb))
            /\ last.res.calls[i].properties.relation
                 \in {Undefined, last.payload.state.parent_select}
       /\ (/\ last.payload.state.parent_select # Undefined
           /\ ~HasSelfRelation(last.env.properties, SubmittedDb))
            => AckedSuccess

----------------------------------------------------------------------------
(* C11: the default title of the form is the placeholder when the message  *)
(* text is empty; otherwise it is W, the text with every whitespace run    *)
(* collapsed to one space and trimmed: W itself when W has at most 80      *)
(* characters, else the first 79 characters of W followed by the ellipsis  *)
(* marker; the marker is there exactly when W was cut.                     *)

\* the words of a text given by its runs, joined by single spaces
RECURSIVE JoinWords(_, _, _)
JoinWords(runs, started, gap) ==
    IF runs = << >> THEN << >>
    ELSE IF IsSpace(Head(runs).ch)
         THEN JoinWords(Tail(runs), started, started)
         ELSE (IF gap THEN << " " >> ELSE << >>)
              \o [i \in 1..Head(runs).n |-> Head(runs).ch]
              \o JoinWords(Tail(runs), TRUE, FALSE)

C11_DefaultTitle ==
    (last.handler = "shortcut" /\ "runs" \in DOMAIN last) =>
        LET T == last.payload.message.text
            W == JoinWords(last.runs, FALSE, FALSE)
            title == last.res.calls[1].view.title_initial_value
        IN /\ T = << >> => title = NewTaskFromSlack
           /\ (T # << >> /\ Len(W) <= 80) => title = W
           /\ (T # << >> /\ Len(W) > 80) =>
                /\ Len(title) = 80
                /\ SubSeq(title, 1, 79) = SubSeq(W, 1, 79)
                /\ title[80] = Ellipsis
           /\ T # << >> =>
                ((\E i \in DOMAIN title : title[i] = Ellipsis) <=> Len(W) > 80)

C11_Witness ==
    /\ last.handler = "shortcut"
    /\ "runs" \in DOMAIN last
    /\ Len(JoinWords(last.runs, FALSE, FALSE)) > 80
    /\ Len(last.payload.message.text) > Len(JoinWords(last.runs, FALSE, FALSE)) + 1
    /\ last.res.calls[1].view.title_initial_value[80] = Ellipsis

IsTrimOf(r, t) ==
    /\ r # << >>
    /\ ~IsSpace(r[1])
    /\ ~IsSpace(r[Len(r)])
    /\ \E i, j \in 0..Len(t) :
          /\ i + j <= Len(t)
          /\ r = SubSeq(t, i + 1, Len(t) - j)
          /\ \A k \in 1..i : IsSpace(t[k])
          /\ \A k \in (Len(t) - j + 1)..Len(t) : IsSpace(t[k])

BlankText(t) == t = UndefinedText \/ \A k \in DOMAIN t : IsSpace(t[k])

C13_BlankTitleIsPlaceholder ==
    last.handler = "view" =>
        \A i \in CallsOf("pages.create") :
            LET input == last.payload.state.title_input
                title == last.res.calls[i].properties.title
            IN IF BlankText(input) THEN title = NewTask ELSE IsTrimOf(title, input)

C13_Witness ==
    /\ last.handler = "view"
    /\ CallsOf("pages.create") # {}
    /\ last.payload.state.title_input = << " " >>
    /\ last.res.calls[2].properties.title = NewTask

(* C14: the shortcut handler acknowledges before it opens the form and    *)
(* whatever the outcome of the opening; it asks for the form exactly once, *)
(* with the trigger of the invocation, also when the opening fails.        *)
C14_AckThenOpenOnce ==
    last.handler = "shortcut" =>
        /\ Len(last.res.acks) = 1
        /\ last.res.acks[1].kind = "ack"
        /\ last.res.acks[1].after = 0
        /\ Len(last.res.calls) = 1
        /\ last.res.calls[1].op = "views.open"
        /\ last.res.calls[1].trigger_id = last.payload.trigger_id

C14_Witness ==
    /\ last.handler = "shortcut"
    /\ ~last.env.openOk
    /\ last.res.threw
    /\ last.payload.trigger_id = "trg2"
    /\ last.res.acks # << >>

(* C15: on a retrieved schema, getTitlePropName throws exactly when no    *)
(* property has type title, and otherwise returns the name of a property   *)
(* of type title.                                                          *)
C15_SchemaErrorIffNoTitle ==
    (last.handler = "schema" /\ last.env.retrieveOk) =>
        /\ last.res.title.threw <=> ~HasTitle(last.env.properties)
        /\ ~last.res.title.threw =>
              \E i \in DOMAIN last.env.properties :
                  /\ last.env.properties[i].type = "title"
                  /\ last.env.properties[i].name = last.res.title.name

C15_Witness ==
    /\ last.handler = "schema"
    /\ last.env.retrieveOk
    /\ Len(last.env.properties) = 3
    /\ last.env.properties[1].type = "relation"
    /\ last.env.properties[2].type = "rich_text"
    /\ last.env.properties[3].type = "title"
    /\ last.res.title.name = "C"

(* C16: when schema resolution throws for want of a title property during  *)
(* a submission, pages.create is not invoked, nothing is appended and the  *)
(* submission is not acknowledged: the failure leaves the handler.         *)
C16_SchemaErrorAborts ==
    (/\ last.handler = "view"
     /\ SubmittedDb # Undefined
     /\ last.env.retrieveOk
     /\ ~HasTitle(last.env.properties))
    => /\ last.res.threw
       /\ last.res.acks = << >>
       /\ CallsOf("pages.create") = {}
       /\ CallsOf("blocks.children.append") = {}
       /\ CallsOf("chat.getPermalink") = {}

C16_Witness ==
    /\ last.handler = "view"
    /\ SubmittedDb # Undefined
    /\ last.env.retrieveOk
    /\ ~HasTitle(last.env.properties)
    /\ Len(last.env.properties) = 2
    /\ last.payload.state.notes_input = << "x" >>
    /\ last.res.threw

(* C17: relation detection returns the first property, in declaration      *)
(* order, of type relation whose target is database D, and none exactly    *)
(* when no property is both.                                               *)
C17_FirstSelfRelation ==
    last.handler = "schema" =>
        LET props == last.env.properties
            D == last.payload.database_id
            cands == {i \in DOMAIN props :
                        props[i].type = "relation" /\ props[i].relation.database_id = D}
        IN IF cands = {}
           THEN last.res.relationPropName = Undefined
           ELSE \E i \in cands :
                   /\ \A j \in cands : i <= j
                   /\ last.res.relationPropName = props[i].name

C17_Witness ==
    /\ last.handler = "schema"
    /\ Len(last.env.properties) = 3
    /\ \A i \in 1..3 : last.env.properties[i].type = "relation"
    /\ last.env.properties[1].relation.database_id # last.payload.database_id
    /\ last.env.properties[2].relation.database_id = last.payload.database_id
    /\ last.env.properties[3].relation.database_id = last.payload.database_id
    /\ last.res.relationPropName = "B"

(* C18: in one submission the block append is invoked at most once, only  *)
(* after pages.create succeeded and on the id of the page just created;    *)
(* once the page is created it is invoked exactly when the notes are       *)
(* non-empty after trimming or a permalink was obtained, with the notes    *)
(* block (iff notes) followed by the link block (iff permalink).           *)

\* the serialized context holds key k
ContextHas(text, k) == \E i \in DOMAIN text : text[i][1] = k

\* the permalink lookup of the handling on record gave a link
PermalinkObtained ==
    /\ ContextHas(last.payload.private_metadata, "channel")
    /\ ContextHas(last.payload.private_metadata, "ts")
    /\ last.env.permalinkOk
    /\ last.env.permalink # Undefined

C18_AppendOnceAfterCreate ==
    last.handler = "view" =>
        LET notes == last.payload.state.notes_input
            appends == CallsOf("blocks.children.append")
        IN /\ Cardinality(appends) <= 1
           /\ \A i \in appends :
                /\ last.env.createOk
                /\ \E j \in 1..(i - 1) : last.res.calls[j].op = "pages.create"
                /\ last.res.calls[i].block_id = last.env.pageId
                /\ LET ch == last.res.calls[i].children
                       n == IF BlankText(notes) THEN 0 ELSE 1
                   IN /\ Len(ch) = n + (IF PermalinkObtained THEN 1 ELSE 0)
                      /\ n = 1 => /\ ch[1].link = Undefined
                                  /\ IsTrimOf(ch[1].content, notes)
                      /\ PermalinkObtained => ch[n + 1].link = last.env.permalink
           /\ (CallsOf("pages.create") # {} /\ last.env.createOk) =>
                (appends # {} <=> (~BlankText(notes) \/ PermalinkObtained))

C18_Witness ==
    /\ last.handler = "view"
    /\ CallsOf("blocks.children.append") # {}
    /\ PermalinkObtained
    /\ ~BlankText(last.payload.state.notes_input)
    /\ Len(last.res.calls) = 4
    /\ Len(last.res.calls[4].children) = 2

(* C19: the context written into the form by the shortcut (conversation,  *)
(* message timestamp, raw text, no selected database) is what every later  *)
(* option query and the submission receive; while the form is open no      *)
(* handler changes it, and the allow-list never changes.                   *)

\* the id stored under key k of the serialized context, undefined when absent
ContextId(text, k) ==
    IF ContextHas(text, k)
    THEN text[CHOOSE i \in DOMAIN text : text[i][1] = k][2]
    ELSE Undefined

C19_ContextRoundTrips ==
    [][/\ allowedDbSet' = allowedDbSet
       /\ (view.open /\ view'.open) => view'.private_metadata = view.private_metadata
       /\ (last.handler = "none" /\ last'.handler = "options_parent_select") =>
             last'.payload.body.private_metadata = view.private_metadata
       /\ (last.handler = "none" /\ last'.handler = "view") =>
             last'.payload.private_metadata = view.private_metadata
       /\ (last.handler = "none" /\ last'.handler = "shortcut" /\ last'.env.openOk) =>
             LET text == view'.private_metadata
                 given == last'.payload
             IN /\ view'.open
                /\ ContextId(text, "channel") = given.channel
                /\ ContextId(text, "ts")
                     = (IF given.message.ts # Undefined THEN given.message.ts
                        ELSE given.message_ts)
                /\ ContextHas(text, "messageText")
                /\ ContextId(text, "messageText")
                     = (IF given.message.text = UndefinedText THEN << >>
                        ELSE given.message.text)
                /\ ~ContextHas(text, "selectedDb")
      ]_vars

C19_Witness ==
    /\ last.handler = "view"
    /\ view.open
    /\ view.db_select # Undefined
    /\ last.payload.private_metadata = view.private_metadata
    /\ ContextHas(view.private_metadata, "channel")
    /\ ContextId(view.private_metadata, "messageText") = << "x" >>

(* C20: every option query is acknowledged with an option list exactly     *)
(* once on every path of its handler, also when a call to the store fails. *)
C20_OptionQueryAlwaysAcked ==
    last.handler \in {"options_db_select", "options_parent_select"} =>
        /\ Len(last.res.acks) = 1
        /\ "options" \in DOMAIN last.res.acks[1]

====
